---- MODULE Spec2Model ----
(***************************************************************************)
(* Model of the RAG HTTP service of backend/app: the document handlers     *)
(* (upload, list, detail, delete) of api/v1/documents.py, the query        *)
(* handler of api/v1/rag.py and the collaborator set-up of                 *)
(* core/llm_services.py, over an abstract vector store.                    *)
(*                                                                         *)
(* Scheduling: every handler is an `async def` run on one event loop       *)
(* (main.py runs a single uvicorn process).  A handler runs without        *)
(* interruption between two `await`s.  upload_documents awaits file.read() *)
(* once per file; list, detail and delete contain no await and are atomic. *)
(***************************************************************************)
EXTENDS Integers, Sequences, FiniteSets, TLC

(* ------------------------------ bounds ------------------------------- *)
MaxFiles == 2        \* longest batch of one upload request (SpecUpload)
MaxReqs == 2         \* concurrent upload requests (Spec)
MaxDocs == 2         \* files uploaded in all, over all requests (Spec)
MaxTopK == 2         \* largest top_k of a query (SpecQuery)
MaxStored == 2       \* chunks already stored when a query runs (SpecQuery)
MaxPage == 2         \* largest limit and offset of a listing (SpecList)
ScanLimit == 2       \* records one listing scans: `limit=2000`, scaled down

Reqs == 1..MaxReqs
NoPath == [owner |-> 0, n |-> 0, suffix |-> <<>>]
None == "None"

(* ----------------------- strings as char sequences -------------------- *)
FnEmpty == <<>>
FnTxt == <<"a", ".", "t", "x", "t">>
FnPdf == <<"B", ".", "P", "D", "F">>
FnMd == <<"c", ".", "m", "d">>
ExtPdf == <<".", "p", "d", "f">>
ExtTxt == <<".", "t", "x", "t">>
TmpPrefix == <<"/", "t", "m", "p", "/", "t", "m", "p", "x">>

\* str.lower() on the characters that occur
LowerChar(c) ==
  CASE c = "B" -> "b" [] c = "P" -> "p" [] c = "D" -> "d" [] c = "F" -> "f"
    [] OTHER -> c

Lower(s) == [i \in 1..Len(s) |-> LowerChar(s[i])]

\* str.endswith
EndsWith(s, t) ==
  /\ Len(s) >= Len(t)
  /\ SubSeq(s, Len(s) - Len(t) + 1, Len(s)) = t

\* str.rfind of one character, 0 when absent (1-based positions)
RFind(s, c) ==
  LET hits == {i \in 1..Len(s) : s[i] = c}
  IN IF hits = {} THEN 0 ELSE CHOOSE i \in hits : \A j \in hits : j <= i

\* os.path.splitext(p)[1]: from the last dot, when that dot follows the last
\* separator and is preceded by a non-dot character of the base name
SplitExt(p) ==
  LET sepIndex == RFind(p, "/")
      dotIndex == RFind(p, ".")
  IN IF /\ dotIndex > sepIndex
        /\ \E k \in (sepIndex + 1)..(dotIndex - 1) : p[k] # "."
     THEN SubSeq(p, dotIndex, Len(p))
     ELSE <<>>

\* the name NamedTemporaryFile gives a file opened with this suffix
PathText(path) == TmpPrefix \o path.suffix

(* ------------------------------- inputs ------------------------------- *)
CtText == "text/plain"
CtPdf == "application/pdf"
CtOther == "application/octet-stream"

\* an UploadFile: its filename, declared content type, and the number of
\* chunks that loading and splitting its contents yields
UploadFiles(names, ctypes, counts) ==
  [filename : names, content_type : ctypes, nchunks : counts]

\* contents: an empty text, and a text that splits into two chunks
AllFiles ==
  UploadFiles({FnEmpty, FnTxt, FnPdf, FnMd}, {CtPdf, CtOther}, {0, 2})
ConcFiles == UploadFiles({FnTxt, FnMd}, {CtText}, {2})

SeqsUpTo(S, n) == UNION {[1..k -> S] : k \in 0..n}

VARIABLES
  store,               \* the collection: set of chunk records
  nextCid,             \* chunk ids the store has handed out
  nextUuid,            \* uuid4 values handed out
  issued,              \* history: which file each document id was made for
  tmpfiles,            \* temporary files that exist on disk
  pc, files, idx, responses, http,       \* upload_documents, per request
  source_document_id, tmp_file, tmp_file_path,
  resp,                \* the response, when the last step was a detail or
                       \* delete request
  deleted,             \* history: ids a delete has removed
  rag_llm_client, evaluator_llm, evaluator_embeddings,   \* llm_services
  constructed,         \* history: which constructions of the try block
                       \* of llm_services succeeded
  qpc, request,        \* query_rag_system: position and request body
  retrieved,           \* what similarity_search_with_score returned
  sources, actual_answer, current_scores, metric, evaluation_scores,
  qresp,               \* the response of the query
  chatInvoked,         \* history: rag_llm_client.ainvoke was called
  evalInvoked,         \* history: the evaluator language model was called
  raisedAt,            \* history: the step whose exception left the try block
  chatFailed,          \* history: rag_llm_client.ainvoke raised
  metricRaised         \* history: metrics whose computation raised

uploadVars == <<pc, files, idx, responses, http, source_document_id,
                tmp_file, tmp_file_path>>
storeVars == <<store, nextCid>>
docVars == <<store, nextCid, nextUuid, issued, tmpfiles, uploadVars, resp,
             deleted>>
llmVars == <<rag_llm_client, evaluator_llm, evaluator_embeddings,
             constructed>>
queryVars == <<llmVars, qpc, request, retrieved, sources, actual_answer,
               current_scores, metric, evaluation_scores, qresp, chatInvoked,
               evalInvoked, raisedAt, chatFailed, metricRaised>>

(* --------------------------- the vector store ------------------------- *)
\* collection.get(where={"source_document_id": document_id})
Where(st, document_id) == {c \in st : c.sid = document_id}

\* the "ids" of a get result
Ids(chunks) == {c.cid : c \in chunks}

\* collection.delete(ids=...)
DeleteIds(st, ids) == {c \in st : c.cid \notin ids}

\* the first k chunks of a file that splits into n, stamped with the
\* document id and the filename; the store assigns the chunk ids
Stamped(cid0, document_id, file, k) ==
  {[cid |-> cid0 + j - 1, sid |-> document_id, filename |-> file.filename,
    part |-> j] : j \in 1..k}

\* collection.get(limit=n): the first n records, in the order of their ids
RECURSIVE Get(_, _)
Get(st, n) ==
  IF n = 0 \/ st = {} THEN <<>>
  ELSE LET c == CHOOSE x \in st : \A y \in st : x.cid <= y.cid
       IN <<c>> \o Get(st \ {c}, n - 1)

\* no detail, delete or list response
NoResp == [op |-> "none", code |-> 0, id |-> 0, filename |-> <<>>,
           indexed_chunks |-> 0, count |-> 0, documents |-> <<>>,
           total |-> 0, limit |-> 0, offset |-> 0]

(* --------------------------- upload_documents ------------------------- *)
Status(kind, detail) == [kind |-> kind, detail |-> detail]
Processed == Status("processed", None)
EmptyOrUnparsable == Status("empty_or_unparsable", None)
Unsupported(content_type) == Status("error: unsupported file type", content_type)
\* f"error: {str(e)}": the text of the message is not modelled
Error(e) == Status("error", "str(e)")

DocumentCreateResponse(id, filename, status) ==
  [id |-> id, filename |-> filename, status |-> status]

\* (variant) one id made once and reused for every file
Uuid4Reused(n) == 1

\* uuid.uuid4(): a value never handed out before
Uuid4(n) == n + 1

\* (variant) the loader chosen by the declared content type alone
SelectLoaderByType(content_type, path) ==
  IF content_type = CtPdf THEN "pdf"
  ELSE IF content_type = CtText THEN "text"
  ELSE "none"

\* the loader chosen for a file, "none" when the type is unsupported
SelectLoader(content_type, path) ==
  IF content_type = CtPdf \/ EndsWith(Lower(PathText(path)), ExtPdf)
  THEN "pdf"
  ELSE IF content_type = CtText \/ EndsWith(Lower(PathText(path)), ExtTxt)
  THEN "text"
  ELSE "none"

\* except Exception as e: the file gets an error record
ExceptHandler(resps, id, file, e) ==
  Append(resps, DocumentCreateResponse(id, file.filename, Error(e)))

\* (variant) the loop is left after an exception
AfterExceptBreak(i, n) == n + 1

\* the loop goes on with the next file after except/finally
AfterExcept(i, n) == i + 1

\* finally: unlink tmp_file_path when the name is bound and the file exists
Finally(path, tf) ==
  IF path # NoPath /\ path \in tf THEN tf \ {path} ELSE tf

\* The loop from the head of iteration i up to the next `await file.read()`
\* or to the return: an unnamed file is skipped; a named file gets a new
\* document id and a temporary file, and the handler waits for its bytes;
\* when NamedTemporaryFile raises, the file gets an error record and the loop
\* goes on.  After the last file: 400 when no record was made, else 201.
\* The result is the set of states the handler can be in when it next
\* yields to the event loop.
RECURSIVE Advance(_, _, _, _, _, _, _, _)
Advance(r, fs, i, resps, uuid, iss, tf, bound_path) ==
  IF i > Len(fs)
  THEN {[pc |-> "done", idx |-> i, responses |-> resps, nextUuid |-> uuid,
         issued |-> iss, tmpfiles |-> tf,
         source_document_id |-> source_document_id[r], tmp_file |-> NoPath,
         http |-> IF resps = <<>> THEN 400 ELSE 201]}
  ELSE IF fs[i].filename = <<>>
  THEN Advance(r, fs, i + 1, resps, uuid, iss, tf, bound_path)
  ELSE LET id == Uuid4(uuid)
           made == iss \cup {[id |-> id, req |-> r, idx |-> i,
                              filename |-> fs[i].filename]}
           path == [owner |-> r, n |-> i, suffix |-> SplitExt(fs[i].filename)]
       IN {[pc |-> "reading", idx |-> i, responses |-> resps,
            nextUuid |-> id, issued |-> made, tmpfiles |-> tf \cup {path},
            source_document_id |-> id, tmp_file |-> path, http |-> http[r]]}
          \cup
          Advance(r, fs, AfterExcept(i, Len(fs)),
                  ExceptHandler(resps, id, fs[i], "create"), id, made,
                  Finally(bound_path, tf), bound_path)

\* the handler yields in state o
Yield(r, o) ==
  /\ pc' = [pc EXCEPT ![r] = o.pc]
  /\ idx' = [idx EXCEPT ![r] = o.idx]
  /\ responses' = [responses EXCEPT ![r] = o.responses]
  /\ nextUuid' = o.nextUuid
  /\ issued' = o.issued
  /\ tmpfiles' = o.tmpfiles
  /\ source_document_id' = [source_document_id EXCEPT ![r] = o.source_document_id]
  /\ tmp_file' = [tmp_file EXCEPT ![r] = o.tmp_file]
  /\ http' = [http EXCEPT ![r] = o.http]

\* entry of the handler: 400 for an empty list; otherwise the loop runs up
\* to its first await
UploadStart(r, universe, maxlen) ==
  /\ pc[r] = "idle"
  /\ \E fs \in SeqsUpTo(universe, maxlen) :
       /\ files' = [files EXCEPT ![r] = fs]
       /\ IF fs = <<>>
          THEN /\ http' = [http EXCEPT ![r] = 400]
               /\ pc' = [pc EXCEPT ![r] = "done"]
               /\ UNCHANGED <<idx, responses, nextUuid, issued, tmpfiles,
                              source_document_id, tmp_file>>
          ELSE \E o \in Advance(r, fs, 1, <<>>, nextUuid, issued, tmpfiles,
                                 tmp_file_path[r]) : Yield(r, o)
  /\ resp' = NoResp
  /\ UNCHANGED <<store, nextCid, tmp_file_path, deleted, queryVars>>

\* what except/finally leave behind when the iteration raised: the error
\* record, the temporary files, the name bound to tmp_file_path, the store
Raised(r, e, path, st, cid) ==
  [responses |-> ExceptHandler(responses[r], source_document_id[r],
                               files[r][idx[r]], e),
   tmpfiles |-> Finally(path, tmpfiles),
   tmp_file_path |-> path,
   next |-> AfterExcept(idx[r], Len(files[r])),
   store |-> st,
   nextCid |-> cid]

\* what an iteration that did not raise leaves behind
Responded(r, status, path, tf, st, cid) ==
  [responses |-> Append(responses[r],
                        DocumentCreateResponse(source_document_id[r],
                                               files[r][idx[r]].filename,
                                               status)),
   tmpfiles |-> Finally(path, tf),
   tmp_file_path |-> path,
   next |-> idx[r] + 1,
   store |-> st,
   nextCid |-> cid]

\* (variant) the status does not depend on the chunks
StatusProcessed(n) == Processed

\* `if chunks: ... status = "processed" else: status = "empty_or_unparsable"`
\* for a file that splits into n chunks
StatusOf(n) == IF n > 0 THEN Processed ELSE EmptyOrUnparsable

\* the rest of the iteration after `await file.read()`: the ways it can end
ProcessFile(r) ==
  LET file == files[r][idx[r]]
      id == source_document_id[r]
      path == tmp_file[r]
      n == file.nchunks
      loader == SelectLoader(file.content_type, path)
  IN {Raised(r, e, tmp_file_path[r], store, nextCid) : e \in {"read", "write"}}
     \cup
     (IF loader = "none"
      THEN {Responded(r, Unsupported(file.content_type), path,
                      tmpfiles \ {path}, store, nextCid)}
      ELSE {Raised(r, e, path, store, nextCid) : e \in {"load", "split"}}
           \cup
           \* add_documents embeds and upserts the whole list in one call:
           \* it raises with nothing stored, or stores every chunk
           (IF n > 0 THEN {Raised(r, "add", path, store, nextCid)} ELSE {})
           \cup
           {Responded(r, StatusOf(n), path, tmpfiles,
                      IF n > 0 THEN store \cup Stamped(nextCid, id, file, n)
                      ELSE store,
                      nextCid + n)})

\* resumption after `await file.read()`: the iteration ends, and the loop
\* runs up to its next await or to the return
UploadResume(r) ==
  /\ pc[r] = "reading"
  /\ \E p \in ProcessFile(r) :
       /\ store' = p.store
       /\ nextCid' = p.nextCid
       /\ tmp_file_path' = [tmp_file_path EXCEPT ![r] = p.tmp_file_path]
       /\ \E o \in Advance(r, files[r], p.next, p.responses, nextUuid,
                            issued, p.tmpfiles, p.tmp_file_path) : Yield(r, o)
  /\ resp' = NoResp
  /\ UNCHANGED <<files, deleted, queryVars>>

(* ---------------- get_document_details, delete_document --------------- *)

\* `except Exception as e: raise HTTPException(status_code=500, ...)` around
\* the handler body: HTTPException is an Exception, so a status raised
\* inside the try block leaves the handler as 500
DetailExcept(raised) == 500
DeleteExcept(raised) == 500

\* (variant) the filename taken from the first record of the collection
FirstFilenameOfStore(chunks) ==
  (CHOOSE c \in store : \A d \in store : c.cid <= d.cid).filename

\* results["metadatas"][0].get("filename")
FirstFilename(chunks) ==
  (CHOOSE c \in chunks : \A d \in chunks : c.cid <= d.cid).filename

\* the response of get_document_details
DocumentDetailResponse(st, document_id) ==
  LET results == Where(st, document_id)
  IN IF Ids(results) = {}
     THEN [NoResp EXCEPT !.op = "detail", !.code = DetailExcept(404),
                         !.id = document_id]
     ELSE [NoResp EXCEPT !.op = "detail", !.code = 200, !.id = document_id,
                         !.filename = FirstFilename(results),
                         !.indexed_chunks = Cardinality(Ids(results))]

GetDocumentDetails(document_id) ==
  /\ resp' = DocumentDetailResponse(store, document_id)
  /\ UNCHANGED <<store, nextCid, nextUuid, issued, tmpfiles, uploadVars,
                 deleted, queryVars>>

\* (variant) every id of the collection once the document is found
IdsToDeleteAll(st, document_id) ==
  IF Where(st, document_id) = {} THEN {} ELSE Ids(st)

\* the ids delete_document passes to vector_store.delete
IdsToDelete(st, document_id) == Ids(Where(st, document_id))

DeleteDocument(document_id) ==
  LET ids_to_delete == IdsToDelete(store, document_id)
  IN /\ IF ids_to_delete # {}
        THEN /\ store' = DeleteIds(store, ids_to_delete)
             /\ resp' = [NoResp EXCEPT !.op = "delete", !.code = 200,
                                       !.id = document_id,
                                       !.count = Cardinality(ids_to_delete)]
             /\ deleted' = deleted \cup {document_id}
        ELSE /\ resp' = [NoResp EXCEPT !.op = "delete",
                                       !.code = DeleteExcept(404),
                                       !.id = document_id]
             /\ UNCHANGED <<store, deleted>>
     /\ UNCHANGED <<nextCid, nextUuid, issued, tmpfiles, uploadVars,
                    queryVars>>

(* ----------------------------- list_documents ------------------------- *)
\* (variant) no document id counts as seen
SeenNever(seen_doc_ids, doc_id) == FALSE

\* `if doc_id not in seen_doc_ids:` negated
Seen(seen_doc_ids, doc_id) == doc_id \in seen_doc_ids

\* DocumentBase(id, filename, status="indexed", indexed_chunks=num_chunks):
\* the chunk count is a second get, filtered by the id, without a limit
DocumentBase(st, metadata) ==
  [id |-> metadata.sid, filename |-> metadata.filename, status |-> "indexed",
   indexed_chunks |-> Cardinality(Ids(Where(st, metadata.sid)))]

\* the loop over results["metadatas"] from position i on
RECURSIVE UniqueDocsMetadata(_, _, _, _, _)
UniqueDocsMetadata(st, metadatas, i, seen_doc_ids, unique_docs_metadata) ==
  IF i > Len(metadatas) THEN unique_docs_metadata
  ELSE IF Seen(seen_doc_ids, metadatas[i].sid)
  THEN UniqueDocsMetadata(st, metadatas, i + 1, seen_doc_ids,
                          unique_docs_metadata)
  ELSE UniqueDocsMetadata(st, metadatas, i + 1,
                          seen_doc_ids \cup {metadatas[i].sid},
                          Append(unique_docs_metadata,
                                 DocumentBase(st, metadatas[i])))

\* unique_docs_metadata[offset : offset + limit]
Slice(s, offset, limit) ==
  LET hi == IF offset + limit < Len(s) THEN offset + limit ELSE Len(s)
  IN SubSeq(s, offset + 1, hi)

\* the response of list_documents
DocumentListResponse(st, limit, offset) ==
  LET results == Get(st, ScanLimit)
      unique_docs_metadata == UniqueDocsMetadata(st, results, 1, {}, <<>>)
  IN [NoResp EXCEPT !.op = "list", !.code = 200,
                    !.documents = Slice(unique_docs_metadata, offset, limit),
                    !.total = Len(unique_docs_metadata),
                    !.limit = limit, !.offset = offset]

\* list_documents has no await: one step; an exception of the store is
\* answered 500
ListDocuments(limit, offset) ==
  /\ \/ resp' = DocumentListResponse(store, limit, offset)
     \/ resp' = [NoResp EXCEPT !.op = "list", !.code = 500,
                               !.limit = limit, !.offset = offset]
  /\ UNCHANGED <<store, nextCid, nextUuid, issued, tmpfiles, uploadVars,
                 deleted, queryVars>>

(* ------------------------------ llm_services -------------------------- *)
\* The module body: the three collaborators are built in one try block; an
\* exception in any of the three constructions runs the except block, which
\* rebinds all three to the fake implementations.
\* (variant) an except block that leaves a failed collaborator unset
LlmServicesOrNone(general_ok, ragas_llm_ok, embeddings_ok) ==
  [rag_llm_client |-> IF general_ok THEN "ChatOpenAI" ELSE None,
   evaluator_llm |->
     IF ragas_llm_ok THEN "LangchainLLMWrapper(ChatOpenAI)" ELSE None,
   evaluator_embeddings |->
     IF embeddings_ok THEN "LangchainEmbeddingsWrapper(OpenAIEmbeddings)"
     ELSE None]

LlmServices(general_ok, ragas_llm_ok, embeddings_ok) ==
  IF general_ok /\ ragas_llm_ok /\ embeddings_ok
  THEN [rag_llm_client |-> "ChatOpenAI",
        evaluator_llm |-> "LangchainLLMWrapper(ChatOpenAI)",
        evaluator_embeddings |-> "LangchainEmbeddingsWrapper(OpenAIEmbeddings)"]
  ELSE [rag_llm_client |-> "FakeListLLM",
        evaluator_llm |-> "LangchainLLMWrapper(FakeListLLM)",
        evaluator_embeddings |-> "LangchainEmbeddingsWrapper(FakeEmbeddings)"]

\* import of app.core.llm_services at process start
ImportLlmServices ==
  /\ qpc = "boot"
  /\ \E general_ok, ragas_llm_ok, embeddings_ok \in BOOLEAN :
       LET built == LlmServices(general_ok, ragas_llm_ok, embeddings_ok)
       IN /\ rag_llm_client' = built.rag_llm_client
          /\ evaluator_llm' = built.evaluator_llm
          /\ evaluator_embeddings' = built.evaluator_embeddings
          /\ constructed' = [general_llm |-> general_ok,
                             evaluator_llm |-> ragas_llm_ok,
                             evaluator_embeddings |-> embeddings_ok]
  /\ qpc' = "ready"
  /\ UNCHANGED <<docVars, request, retrieved, sources, actual_answer,
                 current_scores, metric, evaluation_scores, qresp,
                 chatInvoked, evalInvoked, raisedAt, chatFailed,
                 metricRaised>>

(* ---------------------------- query_rag_system ------------------------ *)
Queries == {"q"}
\* reference_answer: absent, the empty string, a text
References == {None, "", "ref"}
RagQueryRequests ==
  [query : Queries, top_k : 1..MaxTopK, reference_answer : References]

NoAnswer == [kind |-> "", query |-> ""]
\* "I could not find any relevant documents for your query: ..."
NoDocumentsAnswer(query) == [kind |-> "no relevant documents", query |-> query]
\* "The Language Model is currently unavailable. ..."
UnavailableAnswer == [kind |-> "unavailable", query |-> ""]
\* "An unexpected error occurred while generating the answer. (Query: ...)"
ErrorAnswer(query) == [kind |-> "error generating", query |-> query]
\* llm_response.content.strip()
LlmAnswer == [kind |-> "generated", query |-> ""]

NoScores == [response_relevancy |-> "unset", bleu_score |-> "unset",
             rouge_score |-> "unset"]
\* evaluation_scores: <<>> when absent (None), else <<the MetricScore>>
NoQueryResponse == [code |-> 0, answer |-> NoAnswer, sources |-> <<>>,
                    evaluation_scores |-> <<>>]
\* a score that was computed (a float)
Score == "float"

\* the stored chunks nearest to the query, at most k of them, nearest first
\* (the order of the distances is taken to be the order of the chunk ids)
RECURSIVE TopK(_, _)
TopK(chunks, k) ==
  IF k = 0 \/ chunks = {} THEN <<>>
  ELSE LET c == CHOOSE x \in chunks : \A y \in chunks : x.cid <= y.cid
       IN <<c>> \o TopK(chunks \ {c}, k - 1)

\* one SourceDocument per retrieved chunk, in retrieval order
SourceDocuments(docs) ==
  [i \in 1..Len(docs) |->
     [id |-> docs[i].sid, document_name |-> docs[i].filename,
      snippet |-> <<docs[i].sid, docs[i].part>>, score |-> i]]

\* (variant) the chat model is asked whatever was retrieved
GeneratesAlways(srcs) == TRUE

\* `if not sources: ... else:` the chat model is asked only with sources
Generates(srcs) == srcs # <<>>

\* (variant) the exception of the chat-model call is raised again
LlmExceptReraise(e) == "raised"

\* `except Exception as e_llm:` around the chat-model call: the exception
\* ends there, the answer is the templated error text
LlmExcept(e) == "caught"

\* `if request.reference_answer:`
Truthy(reference_answer) == reference_answer \notin {None, ""}

\* `except Exception as e:` around the whole handler body: HTTPException 500
QueryFails(step) ==
  /\ qresp' = [NoQueryResponse EXCEPT !.code = 500]
  /\ raisedAt' = step
  /\ qpc' = "done"

\* a request arrives; vector_store.similarity_search_with_score raises or
\* returns the nearest chunks
Retrieve ==
  /\ qpc \in {"ready", "done"}
  /\ \E req \in RagQueryRequests :
       /\ request' = req
       /\ \/ /\ retrieved' = TopK(store, req.top_k)
             /\ qpc' = "shape"
             /\ qresp' = NoQueryResponse
             /\ raisedAt' = "none"
          \/ /\ retrieved' = <<>>
             /\ QueryFails("retrieval")
  /\ sources' = <<>>
  /\ actual_answer' = NoAnswer
  /\ current_scores' = NoScores
  /\ metric' = 1
  /\ evaluation_scores' = <<>>
  /\ chatInvoked' = FALSE
  /\ evalInvoked' = FALSE
  /\ chatFailed' = FALSE
  /\ metricRaised' = {}
  /\ UNCHANGED <<docVars, llmVars>>

\* the sources list is built (a SourceDocument may fail to validate), and
\* without sources the answer is the templated one
Shape ==
  /\ qpc = "shape"
  /\ \/ /\ sources' = SourceDocuments(retrieved)
        /\ actual_answer' =
             IF Generates(SourceDocuments(retrieved)) THEN NoAnswer
             ELSE NoDocumentsAnswer(request.query)
        /\ qpc' = IF Generates(SourceDocuments(retrieved)) THEN "generate"
                  ELSE "evaluate"
        /\ UNCHANGED <<qresp, raisedAt>>
     \/ /\ retrieved # <<>>
        /\ QueryFails("sources")
        /\ UNCHANGED <<sources, actual_answer>>
  /\ UNCHANGED <<docVars, llmVars, request, retrieved, current_scores, metric,
                 evaluation_scores, chatInvoked, evalInvoked, chatFailed,
                 metricRaised>>

\* the chat model is asked: unavailable, answered, or its exception caught
Generate ==
  /\ qpc = "generate"
  /\ IF rag_llm_client = None
     THEN /\ actual_answer' = UnavailableAnswer
          /\ qpc' = "evaluate"
          /\ UNCHANGED <<chatInvoked, chatFailed, qresp, raisedAt>>
     ELSE /\ chatInvoked' = TRUE
          /\ \/ /\ actual_answer' = LlmAnswer
                /\ qpc' = "evaluate"
                /\ UNCHANGED <<chatFailed, qresp, raisedAt>>
             \/ /\ chatFailed' = TRUE
                /\ IF LlmExcept("e_llm") = "caught"
                   THEN /\ actual_answer' = ErrorAnswer(request.query)
                        /\ qpc' = "evaluate"
                        /\ UNCHANGED <<qresp, raisedAt>>
                   ELSE /\ QueryFails("llm")
                        /\ UNCHANGED actual_answer
  /\ UNCHANGED <<docVars, llmVars, request, retrieved, sources, current_scores,
                 metric, evaluation_scores, evalInvoked, metricRaised>>

\* sample_data_filtered: the keys of sample_data whose value is not None
SampleDataFiltered ==
  {"user_input", "response", "retrieved_contexts"} \cup
  (IF request.reference_answer # None THEN {"reference"} ELSE {})

\* RagQueryResponse(...) with status 200
Return(scores) ==
  /\ qresp' = [code |-> 200, answer |-> actual_answer, sources |-> sources,
               evaluation_scores |-> scores]
  /\ qpc' = "done"
  /\ UNCHANGED raisedAt

\* `if request.reference_answer:` the sample is built (SingleTurnSample may
\* raise) and the metrics are run; otherwise the response is returned
Evaluate ==
  /\ qpc = "evaluate"
  /\ IF ~Truthy(request.reference_answer)
     THEN Return(<<>>)
     ELSE IF ~({"user_input", "response", "reference"} \subseteq
               SampleDataFiltered)
     THEN Return(<<>>)
     ELSE \/ /\ qpc' = "metrics"
             /\ UNCHANGED <<qresp, raisedAt>>
          \/ QueryFails("sample")
  /\ UNCHANGED <<docVars, llmVars, request, retrieved, sources, actual_answer,
                 current_scores, metric, evaluation_scores, chatInvoked,
                 evalInvoked, chatFailed, metricRaised>>

\* metrics_to_run, in the order of the dict
MetricKeys == <<"response_relevancy", "bleu_score", "rouge_score">>
MetricParams(key) ==
  IF key = "response_relevancy" THEN {"llm", "embeddings"} ELSE {}
RequiredFields(key) ==
  IF key = "response_relevancy" THEN {"response"}
  ELSE {"response", "reference"}

\* the metric is skipped: a required field is missing or its evaluator is None
Skipped(key) ==
  \/ ~(RequiredFields(key) \subseteq SampleDataFiltered)
  \/ "llm" \in MetricParams(key) /\ evaluator_llm = None
  \/ "embeddings" \in MetricParams(key) /\ evaluator_embeddings = None

\* (variant) the exception of one metric discards the scores computed so far
MetricExceptClears(scores, key) ==
  [k \in DOMAIN scores |->
     IF k = key \/ scores[k] # "unset" THEN None ELSE "unset"]

\* `except Exception as e_metric:` the score of this metric is None, the
\* other entries of current_scores_dict stay
MetricExcept(scores, key) == [scores EXCEPT ![key] = None]

\* one pass of the metric loop: skipped, scored, or its exception caught
\* (before or after the metric has called the evaluator language model)
RunMetric ==
  /\ qpc = "metrics"
  /\ metric <= Len(MetricKeys)
  /\ LET key == MetricKeys[metric]
     IN IF Skipped(key)
        THEN /\ current_scores' = [current_scores EXCEPT ![key] = None]
             /\ UNCHANGED <<evalInvoked, metricRaised>>
        ELSE \/ /\ current_scores' = [current_scores EXCEPT ![key] = Score]
                /\ evalInvoked' = (evalInvoked \/ "llm" \in MetricParams(key))
                /\ UNCHANGED metricRaised
             \/ /\ current_scores' = MetricExcept(current_scores, key)
                /\ metricRaised' = metricRaised \cup {key}
                /\ \/ evalInvoked' =
                        (evalInvoked \/ "llm" \in MetricParams(key))
                   \/ UNCHANGED evalInvoked
  /\ metric' = metric + 1
  /\ UNCHANGED <<docVars, llmVars, qpc, request, retrieved, sources,
                 actual_answer, evaluation_scores, qresp, chatInvoked,
                 raisedAt, chatFailed>>

\* MetricScore(**current_scores_dict) (may fail to validate), then the
\* response
Package ==
  /\ qpc = "metrics"
  /\ metric > Len(MetricKeys)
  /\ \/ /\ evaluation_scores' = <<current_scores>>
        /\ Return(<<current_scores>>)
     \/ /\ QueryFails("scores")
        /\ UNCHANGED evaluation_scores
  /\ UNCHANGED <<docVars, llmVars, request, retrieved, sources, actual_answer,
                 current_scores, metric, chatInvoked, evalInvoked, chatFailed,
                 metricRaised>>

(* ------------------------- initial state, specs ----------------------- *)
DocInit ==
  /\ store = {}
  /\ nextCid = 1
  /\ nextUuid = 0
  /\ issued = {}
  /\ tmpfiles = {}
  /\ pc = [r \in Reqs |-> "idle"]
  /\ files = [r \in Reqs |-> <<>>]
  /\ idx = [r \in Reqs |-> 1]
  /\ responses = [r \in Reqs |-> <<>>]
  /\ http = [r \in Reqs |-> 0]
  /\ source_document_id = [r \in Reqs |-> 0]
  /\ tmp_file = [r \in Reqs |-> NoPath]
  /\ tmp_file_path = [r \in Reqs |-> NoPath]
  /\ resp = NoResp
  /\ deleted = {}

QueryInit ==
  /\ rag_llm_client = None
  /\ evaluator_llm = None
  /\ evaluator_embeddings = None
  /\ constructed = [general_llm |-> FALSE, evaluator_llm |-> FALSE,
                    evaluator_embeddings |-> FALSE]
  /\ qpc = "boot"
  /\ request = [query |-> "", top_k |-> 1, reference_answer |-> None]
  /\ retrieved = <<>>
  /\ sources = <<>>
  /\ actual_answer = NoAnswer
  /\ current_scores = NoScores
  /\ metric = 1
  /\ evaluation_scores = <<>>
  /\ qresp = NoQueryResponse
  /\ chatInvoked = FALSE
  /\ evalInvoked = FALSE
  /\ raisedAt = "none"
  /\ chatFailed = FALSE
  /\ metricRaised = {}

Init == DocInit /\ QueryInit

\* ids a client may name: every id handed out so far and one unknown id
KnownIds == 1..(nextUuid + 1)

\* files the upload requests so far were given
RECURSIVE Planned(_)
Planned(rs) ==
  IF rs = {} THEN 0
  ELSE LET r == CHOOSE q \in rs : TRUE
       IN Len(files[r]) + Planned(rs \ {r})

\* upload requests are numbered in the order they arrive
Arrived(r) == \A q \in Reqs : q < r => pc[q] # "idle"

\* Spec: upload requests running concurrently with detail and delete
Next ==
  \/ \E r \in Reqs :
       /\ Arrived(r)
       /\ UploadStart(r, ConcFiles, MaxDocs - Planned(Reqs))
  \/ \E r \in Reqs : UploadResume(r)
  \/ \E d \in KnownIds : GetDocumentDetails(d)
  \/ \E d \in KnownIds : DeleteDocument(d)

vars == <<docVars, queryVars>>

Spec == Init /\ [][Next]_vars

\* SpecUpload: one upload request over every kind of file
NextUpload ==
  \/ UploadStart(1, AllFiles, MaxFiles)
  \/ UploadResume(1)

SpecUpload == Init /\ [][NextUpload]_vars

\* text files: a.txt of no or one chunk, c.md of two chunks
ListFiles ==
  UploadFiles({FnTxt}, {CtText}, {0, 1}) \cup
  UploadFiles({FnMd}, {CtText}, {2})

\* SpecList: one upload request, with listings, detail requests and deletes
\* between its steps
NextList ==
  \/ UploadStart(1, ListFiles, MaxFiles)
  \/ UploadResume(1)
  \/ \E limit \in 1..MaxPage, offset \in 0..MaxPage :
       ListDocuments(limit, offset)
  \/ \E d \in KnownIds : GetDocumentDetails(d)
  \/ \E d \in KnownIds : DeleteDocument(d)

SpecList == Init /\ [][NextList]_vars

\* a collection left by an earlier upload of one text file: n chunks
InitStored ==
  /\ \E n \in 0..MaxStored :
       LET file == [filename |-> FnTxt, content_type |-> CtText, nchunks |-> n]
       IN /\ store = Stamped(1, 1, file, n)
          /\ nextCid = n + 1
          /\ issued = {[id |-> 1, req |-> 1, idx |-> 1, filename |-> FnTxt]}
  /\ nextUuid = 1
  /\ tmpfiles = {}
  /\ pc = [r \in Reqs |-> "idle"]
  /\ files = [r \in Reqs |-> <<>>]
  /\ idx = [r \in Reqs |-> 1]
  /\ responses = [r \in Reqs |-> <<>>]
  /\ http = [r \in Reqs |-> 0]
  /\ source_document_id = [r \in Reqs |-> 0]
  /\ tmp_file = [r \in Reqs |-> NoPath]
  /\ tmp_file_path = [r \in Reqs |-> NoPath]
  /\ resp = NoResp
  /\ deleted = {}

\* SpecQuery: the process starts and serves queries over a stored collection
InitQuery == InitStored /\ QueryInit

NextQuery ==
  \/ ImportLlmServices
  \/ Retrieve
  \/ Shape
  \/ Generate
  \/ Evaluate
  \/ RunMetric
  \/ Package

SpecQuery == InitQuery /\ [][NextQuery]_vars

TypeOK ==
  /\ \A c \in store : c.cid < nextCid
  /\ \A r \in Reqs : pc[r] \in {"idle", "reading", "done"}

(* ------------------------- vocabulary of the claims ------------------- *)
\* chunks stored under a document id
StoredFor(d) == {c \in store : c.sid = d}

\* the files of request r that have a name
NamedIdx(r) == {i \in 1..Len(files[r]) : files[r][i].filename # <<>>}

\* positions in the response of r of the records made for its i-th file
RecordsOf(r, i) ==
  {j \in 1..Len(responses[r]) :
     \E g \in issued : g.req = r /\ g.idx = i /\ g.id = responses[r][j].id}

\* the i-th file of r has been dealt with
Finished(r, i) == i < idx[r]

UnsupportedExt(f) == Lower(SplitExt(f.filename)) \notin {ExtPdf, ExtTxt}
HasLoader(f) == f.content_type \in {CtPdf, CtText} \/ ~UnsupportedExt(f)

\* the statuses one file can get, whatever else is in the batch
FileOutcomes(f) ==
  {Error("any")} \cup
  (IF ~HasLoader(f) THEN {Unsupported(f.content_type)}
   ELSE IF f.nchunks > 0 THEN {Processed} ELSE {EmptyOrUnparsable})

\* a detail or delete request for d is answered in this step
Answered(kind, d) == resp'.op = kind /\ resp'.id = d

(* ------------------------------ claims -------------------------------- *)
\* C1 (as stated): a finished upload of a non-empty list answers 201 with
\* one record per input file, in input order, and answers 400 only for the
\* empty list.
C1_OneRecordPerFile ==
  \A r \in Reqs :
    pc[r] = "done" =>
      IF files[r] = <<>>
      THEN http[r] = 400
      ELSE /\ http[r] = 201
           /\ Len(responses[r]) = Len(files[r])
           /\ \A i \in 1..Len(files[r]) :
                responses[r][i].filename = files[r][i].filename

\* the record made for the i-th file of r shows that file's own outcome:
\* its name, one of the statuses the file alone allows, and under its id
\* the chunks that status stands for
OwnOutcome(r, i, j) ==
  LET f == files[r][i]
      rec == responses[r][j]
      stored == StoredFor(rec.id)
  IN /\ rec.filename = f.filename
     /\ rec.status \in FileOutcomes(f)
     /\ \A c \in stored : c.filename = f.filename /\ c.part \in 1..f.nchunks
     /\ Cardinality(stored) =
          Cardinality({c.part : c \in stored})
     /\ CASE rec.status = Processed -> Cardinality(stored) = f.nchunks
          [] rec.status = Error("any") ->
               /\ Cardinality(stored) < f.nchunks \/ stored = {}
               /\ HasLoader(f) \/ stored = {}
          [] OTHER -> stored = {}

\* C2: an exception while processing one file becomes that file's error
\* record and does not abort the batch: every named file that the loop has
\* passed has exactly one record, in input order, showing its own outcome
\* whatever happened to the other files, and a finished request has passed
\* every file and answers 201.
C2_FailureIsolated ==
  \A r \in Reqs :
    /\ \A i \in NamedIdx(r) :
         Finished(r, i) =>
           /\ Cardinality(RecordsOf(r, i)) = 1
           /\ \A j \in RecordsOf(r, i) : OwnOutcome(r, i, j)
    /\ \A i1, i2 \in NamedIdx(r) :
         \A j1 \in RecordsOf(r, i1), j2 \in RecordsOf(r, i2) :
           i1 < i2 => j1 < j2
    /\ (pc[r] = "done" /\ NamedIdx(r) # {}) =>
         /\ http[r] = 201
         /\ Len(responses[r]) = Cardinality(NamedIdx(r))

\* a finished batch whose first file failed with an exception and whose
\* second file was processed and stored
C2_Witness ==
  /\ pc[1] = "done"
  /\ Len(responses[1]) = 2
  /\ responses[1][1].status = Error("any")
  /\ responses[1][2].status = Processed
  /\ StoredFor(responses[1][2].id) # {}

\* C3 (as stated): the temporary file of an iteration that has ended does
\* not exist: the only temporary file of a request is that of the file it
\* is reading, and a finished request has none.
C3_TempFilesRemoved ==
  \A r \in Reqs :
    \A p \in tmpfiles :
      p.owner = r => (pc[r] = "reading" /\ p = tmp_file[r])

ExactlyOneUnsupportedExt(r) ==
  Cardinality({i \in 1..Len(files[r]) : UnsupportedExt(files[r][i])}) = 1

IsUnsupported(rec) == rec.status.kind = "error: unsupported file type"

\* C4 (as stated): a batch of N files with exactly one unsupported
\* extension gives N records, exactly one of them the unsupported-type
\* error and the others processed or empty_or_unparsable, and the
\* unsupported file stores no chunks.  Stated for the batches in which
\* every file has a name and no file raised an exception, so that a
\* violation is one by the declared content type and neither the skipped
\* record of C1 nor an error record.
C4_OneUnsupported ==
  \A r \in Reqs :
    (/\ pc[r] = "done"
     /\ ExactlyOneUnsupportedExt(r)
     /\ NamedIdx(r) = 1..Len(files[r])
     /\ \A j \in 1..Len(responses[r]) :
          responses[r][j].status.kind # "error") =>
      /\ Len(responses[r]) = Len(files[r])
      /\ Cardinality({j \in 1..Len(responses[r]) :
                        IsUnsupported(responses[r][j])}) = 1
      /\ \A j \in 1..Len(responses[r]) :
           \/ IsUnsupported(responses[r][j])
           \/ responses[r][j].status \in {Processed, EmptyOrUnparsable}
      /\ \A i \in 1..Len(files[r]) :
           UnsupportedExt(files[r][i]) =>
             \A g \in issued :
               (g.req = r /\ g.idx = i) => StoredFor(g.id) = {}

\* C4 (amended): in a batch with exactly one unsupported extension there is
\* one record per named file; the record of the file with the unsupported
\* extension is the unsupported-type error exactly when its declared
\* content type is neither application/pdf nor text/plain and no exception
\* was raised while copying it; no other record is an unsupported-type
\* error, every other record is processed, empty_or_unparsable or the
\* error of an exception; a file marked unsupported stores no chunks.
C4_OneUnsupportedAmended ==
  \A r \in Reqs :
    (pc[r] = "done" /\ ExactlyOneUnsupportedExt(r)) =>
      /\ Len(responses[r]) = Cardinality(NamedIdx(r))
      /\ \A i \in NamedIdx(r) :
           /\ Cardinality(RecordsOf(r, i)) = 1
           /\ \A j \in RecordsOf(r, i) :
                LET rec == responses[r][j]
                    f == files[r][i]
                IN /\ IsUnsupported(rec) <=>
                        /\ UnsupportedExt(f)
                        /\ f.content_type \notin {CtPdf, CtText}
                        /\ rec.status.kind # "error"
                   /\ IsUnsupported(rec) =>
                        /\ rec.status.detail = f.content_type
                        /\ StoredFor(rec.id) = {}
                   /\ rec.status.kind \in
                        {"processed", "empty_or_unparsable", "error",
                         "error: unsupported file type"}

\* a finished batch of a text file and a .md file of unknown type: the
\* first processed, the second refused as unsupported
C4_Witness ==
  /\ pc[1] = "done"
  /\ Len(files[1]) = 2
  /\ files[1][1].filename = FnTxt
  /\ files[1][2].filename = FnMd
  /\ files[1][2].content_type = CtOther
  /\ Len(responses[1]) = 2
  /\ responses[1][1].status = Processed
  /\ responses[1][2].status = Unsupported(CtOther)

\* C5: every stored chunk carries a document id that is present (not 0)
\* and was made for exactly one file of one upload request; no two files,
\* of the same or of different requests, share an id; all chunks with one
\* id carry the filename of that file.
C5_ChunkProvenance ==
  /\ \A c \in store :
       /\ c.sid # 0
       /\ Cardinality({g \in issued : g.id = c.sid}) = 1
       /\ \A g \in issued : g.id = c.sid => c.filename = g.filename
  /\ \A g, h \in issued : g.id = h.id => g = h
  /\ \A c, d \in store : c.sid = d.sid => c.filename = d.filename

\* two files with different names, uploaded by two requests, are stored
\* under two ids
C5_Witness ==
  \E c, d \in store :
    /\ c.sid # d.sid
    /\ c.filename # d.filename
    /\ \E g, h \in issued : g.id = c.sid /\ h.id = d.sid /\ g.req # h.req

\* C6: a delete of an id that has stored chunks removes exactly the chunks
\* of that id and nothing else, reports their number, and leaves no chunk
\* of that id, then and ever after, also while uploads are in flight.
C6_DeleteFrame ==
  /\ [][\A d \in KnownIds :
           (Answered("delete", d) /\ StoredFor(d) # {}) =>
             /\ store' = store \ StoredFor(d)
             /\ resp'.code = 200
             /\ resp'.count = Cardinality(StoredFor(d))
             /\ \A c \in store' : c.sid # d]_vars
  /\ [](\A d \in deleted : StoredFor(d) = {})

\* a delete has removed one document's chunks and the chunks of another
\* document, uploaded by another request, stay in the store
C6_Witness ==
  /\ resp.op = "delete"
  /\ resp.code = 200
  /\ resp.count >= 1
  /\ resp.id \in deleted
  /\ \E c \in store : c.sid # resp.id

\* C7 (as stated): a detail or delete request for an id without stored
\* chunks is answered 404 and leaves the store unchanged.
C7_NotFound ==
  [][\A d \in KnownIds :
       ((Answered("detail", d) \/ Answered("delete", d)) /\ StoredFor(d) = {})
         => (resp'.code = 404 /\ store' = store)]_vars

\* document ids that an upload reported as processed, with their filenames
ProcessedRecords ==
  UNION {{responses[r][j] : j \in {k \in 1..Len(responses[r]) :
                                     responses[r][k].status = Processed}} :
         r \in Reqs}

\* C8: a detail request for an id that an upload reported as processed and
\* that no delete has removed succeeds with the number of chunks stored
\* under the id and the filename recorded at upload.
C8_DetailAfterUpload ==
  [][\A rec \in ProcessedRecords :
       (Answered("detail", rec.id) /\ rec.id \notin deleted) =>
         /\ resp'.code = 200
         /\ resp'.indexed_chunks = Cardinality(StoredFor(rec.id))
         /\ resp'.indexed_chunks >= 1
         /\ resp'.filename = rec.filename]_vars

\* a detail request answered for a processed document while the store also
\* holds a document with another filename
C8_Witness ==
  /\ resp.op = "detail"
  /\ resp.code = 200
  /\ \E rec \in ProcessedRecords :
       rec.id = resp.id /\ rec.filename = resp.filename
  /\ \E c \in store : c.sid # resp.id /\ c.filename # resp.filename

\* a query is being or has been served whose retrieval returned no chunks
NothingRetrieved ==
  /\ qpc \in {"shape", "generate", "evaluate", "metrics", "done"}
  /\ raisedAt # "retrieval"
  /\ retrieved = <<>>

\* C9 (as stated): when retrieval returns no chunks, no language model is
\* invoked during the request, with or without a reference answer, and the
\* 200 response carries the templated answer and no sources.  (The part
\* "the response is 200" is left to C10, so that a violation is one by a
\* language model being invoked.)
C9_NoModelInvoked ==
  NothingRetrieved =>
    /\ ~chatInvoked
    /\ ~evalInvoked
    /\ qresp.code = 200 =>
         /\ qresp.answer = NoDocumentsAnswer(request.query)
         /\ qresp.sources = <<>>

\* C9 (amended): when retrieval returns no chunks, the chat model is never
\* invoked and a 200 response carries the templated answer and no sources;
\* without a reference answer (absent or empty) no language model at all is
\* invoked and the response is 200 without scores; with a reference answer
\* the evaluation runs, its relevancy metric may invoke the evaluator
\* language model, and only an exception in building the sample or in
\* packaging the scores makes the response a 500.
C9_NoChatModelInvoked ==
  NothingRetrieved =>
    /\ ~chatInvoked
    /\ evalInvoked => Truthy(request.reference_answer)
    /\ qresp.code = 200 =>
         /\ qresp.answer = NoDocumentsAnswer(request.query)
         /\ qresp.sources = <<>>
    /\ (qpc = "done" /\ ~Truthy(request.reference_answer)) =>
         /\ qresp.code = 200
         /\ qresp.evaluation_scores = <<>>
    /\ qpc = "done" => qresp.code \in {200, 500}
    /\ qresp.code = 500 => raisedAt \in {"sample", "scores"}

\* a query with a reference answer over the empty store is answered 200 with
\* the templated answer, and the evaluator language model was invoked
C9_Witness ==
  /\ NothingRetrieved
  /\ store = {}
  /\ qpc = "done"
  /\ qresp.code = 200
  /\ qresp.answer = NoDocumentsAnswer(request.query)
  /\ request.reference_answer = "ref"
  /\ evalInvoked

\* C10 (as stated): a served query is answered 500 exactly when the
\* retrieval call raised; otherwise it is answered 200 with an answer, the
\* templated error answer when the chat-model call failed.
C10_OnlyRetrievalFails ==
  qpc = "done" =>
    /\ qresp.code = 500 <=> raisedAt = "retrieval"
    /\ raisedAt # "retrieval" =>
         /\ qresp.code = 200
         /\ qresp.answer # NoAnswer
         /\ chatFailed => qresp.answer = ErrorAnswer(request.query)

\* C10 (amended): a served query is answered 500 exactly when the retrieval
\* call, the building of the sources, the building of the evaluation sample
\* or the packaging of the scores raised; otherwise it is answered 200 with
\* an answer: a failed chat-model call gives the templated error answer and
\* a failed metric an absent score.
C10_OuterExceptFails ==
  qpc = "done" =>
    /\ qresp.code \in {200, 500}
    /\ qresp.code = 500 <=>
         raisedAt \in {"retrieval", "sources", "sample", "scores"}
    /\ qresp.code = 200 =>
         /\ raisedAt = "none"
         /\ qresp.answer # NoAnswer
         /\ chatFailed => qresp.answer = ErrorAnswer(request.query)
         /\ \A i \in 1..Len(qresp.evaluation_scores) :
              \A key \in DOMAIN qresp.evaluation_scores[i] :
                qresp.evaluation_scores[i][key] \in {None, Score}

\* a query whose chat-model call failed and whose relevancy metric gave no
\* score is answered 200 with the templated error answer
C10_Witness ==
  /\ qpc = "done"
  /\ chatFailed
  /\ qresp.code = 200
  /\ qresp.answer = ErrorAnswer(request.query)
  /\ Len(qresp.evaluation_scores) = 1
  /\ qresp.evaluation_scores[1].response_relevancy = None

Sample == {c \in store : Cardinality({d \in store : d.cid < c.cid}) < ScanLimit}
SampleIds == {c.sid : c \in Sample}
\* how many document ids the scan meets before it first meets id d
Rank(d) ==
  Cardinality({e \in SampleIds :
                 \E c \in Sample : /\ c.sid = e
                                   /\ \A x \in Sample : x.sid = d => c.cid < x.cid})
Listed == resp.op = "list" /\ resp.code = 200

\* C12: a listing's total is the number of distinct document ids in the
\* scanned sample, and its documents are the entries offset .. offset+limit-1
\* of those ids in first-seen order (so no id twice, at most limit entries,
\* none when the offset is at or beyond the total), each with the filename
\* and the number of chunks stored for the id in the whole store.
C12_ListPage ==
  Listed =>
    LET docs == resp.documents
        rest == IF resp.total > resp.offset THEN resp.total - resp.offset
                ELSE 0
    IN /\ resp.total = Cardinality(SampleIds)
       /\ Len(docs) = IF resp.limit < rest THEN resp.limit ELSE rest
       /\ \A i \in 1..Len(docs) :
            /\ docs[i].id \in SampleIds
            /\ Rank(docs[i].id) = resp.offset + i - 1
            /\ docs[i].indexed_chunks = Cardinality(StoredFor(docs[i].id))
            /\ \A c \in StoredFor(docs[i].id) : c.filename = docs[i].filename
       /\ \A i, j \in 1..Len(docs) : docs[i].id = docs[j].id => i = j

\* a listing of the second page of one entry, over a store with more records
\* than one scan reads: the entry's document has a chunk outside the sample
C12_Witness ==
  /\ Listed
  /\ Cardinality(store) > ScanLimit
  /\ resp.total = 2 /\ resp.offset = 1 /\ resp.limit = 1
  /\ Len(resp.documents) = 1
  /\ resp.documents[1].indexed_chunks = 2
  /\ \E c \in StoredFor(resp.documents[1].id) : c \notin Sample

\* chunks were stored under document id d at some time: they are in the
\* store, or a delete has removed them
EverStored(d) == StoredFor(d) # {} \/ d \in deleted

\* C13: the status of an uploaded file is "processed" exactly when chunks
\* were stored under its document id; a file whose status is
\* "empty_or_unparsable" or an error has no chunk under its id, so a detail
\* or delete request for its id is not answered 200 and no listing shows it.
C13_ProcessedIffStored ==
  \A r \in Reqs :
    \A i \in 1..Len(responses[r]) :
      LET rec == responses[r][i]
      IN /\ (rec.status = Processed) <=> EverStored(rec.id)
         /\ rec.status # Processed =>
              /\ StoredFor(rec.id) = {}
              /\ (resp.op \in {"detail", "delete"} /\ resp.id = rec.id) =>
                   resp.code # 200
              /\ Listed =>
                   \A j \in 1..Len(resp.documents) :
                     resp.documents[j].id # rec.id

\* a finished batch of a processed file and a file whose processing raised;
\* the listing that follows counts one document, the processed one
C13_Witness ==
  /\ pc[1] = "done"
  /\ Len(responses[1]) = 2
  /\ responses[1][1].status = Processed
  /\ responses[1][2].status = Error("any")
  /\ files[1][2].nchunks > 0
  /\ Listed
  /\ resp.total = 1
  /\ resp.documents[1].id = responses[1][1].id

Stubs == [rag_llm_client |-> "FakeListLLM",
          evaluator_llm |-> "LangchainLLMWrapper(FakeListLLM)",
          evaluator_embeddings |-> "LangchainEmbeddingsWrapper(FakeEmbeddings)"]

\* C14: once llm_services is imported, whatever constructions succeeded or
\* failed, none of rag_llm_client, evaluator_llm, evaluator_embeddings is
\* None and a collaborator whose construction failed is the stub; so no
\* query gets the "Language Model is currently unavailable" answer, and an
\* absent score in a response comes from a metric whose computation raised,
\* never from a metric skipped for a missing evaluator.
C14_NeverAbsent ==
  qpc # "boot" =>
    /\ rag_llm_client # None
    /\ evaluator_llm # None
    /\ evaluator_embeddings # None
    /\ ~constructed.general_llm => rag_llm_client = Stubs.rag_llm_client
    /\ ~constructed.evaluator_llm => evaluator_llm = Stubs.evaluator_llm
    /\ ~constructed.evaluator_embeddings =>
         evaluator_embeddings = Stubs.evaluator_embeddings
    /\ actual_answer # UnavailableAnswer
    /\ qresp.answer # UnavailableAnswer
    /\ \A k \in DOMAIN current_scores :
         current_scores[k] = None => k \in metricRaised
    /\ qresp.evaluation_scores # <<>> =>
         \A k \in DOMAIN qresp.evaluation_scores[1] :
           qresp.evaluation_scores[1][k] = None => k \in metricRaised

\* only the construction of the embeddings failed; a query with sources and
\* a reference answer is answered by the chat client and all three metrics
\* give a number
C14_Witness ==
  /\ constructed = [general_llm |-> TRUE, evaluator_llm |-> TRUE,
                    evaluator_embeddings |-> FALSE]
  /\ evaluator_embeddings = Stubs.evaluator_embeddings
  /\ qresp.code = 200
  /\ qresp.sources # <<>>
  /\ qresp.answer = LlmAnswer
  /\ qresp.evaluation_scores =
       <<[response_relevancy |-> Score, bleu_score |-> Score,
          rouge_score |-> Score]>>
====
